---- MODULE Spec2Model ----
(***************************************************************************)
(* Model of the QuickBooks synchronisation core: the single-record sync    *)
(* (syncInvoiceToQBO / syncPaymentToQBO), the batch orchestrator           *)
(* (syncAllInvoicesToQBO / syncAllPaymentsToQBO), the sync audit log       *)
(* (createSyncLog) and the token lifecycle (refreshToken,                  *)
(* getValidAccessToken, qboTokenRefreshMiddleware).                        *)
(*                                                                         *)
(* The invoice and the payment service run the same code over their own    *)
(* table; the model has one entity table that stands for either.  An       *)
(* action is one resumption of an async function: the effect of the        *)
(* awaited database or HTTP call, followed by the synchronous code up to   *)
(* the next await.                                                         *)
(***************************************************************************)
EXTENDS Integers, Sequences, FiniteSets, TLC

\* ---------------------------------------------------------------- bounds
MaxEntities == 12   \* most rows a batch run selects (a batch and two more)
SmallRun == 4       \* batch runs over 0..SmallRun rows, a full batch, and MaxEntities rows
NumEntities == 1    \* rows of the entity table when requests run concurrently
NumCallers == 2     \* concurrent HTTP requests
MaxFaults == 1      \* transient network failures the environment may inject
NumTokenCallers == 2 \* concurrent users of the connection's tokens
MaxTicks == 3       \* times the clock advances
SelectRows == 3     \* rows of the table a run selects from, of any status
MaxLines == 3       \* most line items of an invoice
MaxLinks == 2       \* most stored linked transactions of a payment
MaxDbFaults == 1    \* database writes the environment may fail

\* ------------------------------------------------------ program constants
BATCH_SIZE == 10
ConcurrencyLimit == 3
\* times in seconds
TEN_MINUTES == 600
AccessLifetime == 3600
REFRESH_TOKEN_LIFETIME_SECONDS == 8640000
DefaultRefreshExpiresIn == 8726400
PacingDelay == 2

Caller == 1..NumCallers
TokenCaller == 1..NumTokenCallers

NULL == 0

\* The connection of the realm the requests name, another one, and the one
\* findOrCreateConnection creates for a realm that has none.
ThisConnection == 1
OtherConnection == 2
NewConnection == 3

Outcome == {"ok", "fault200", "faultHttp", "httpError", "network", "noData"}

VARIABLES
    entity,         \* the invoice / payment table: one row per local id
    syncLog,        \* the sync_logs rows, grouped by systemTransactionId
    remoteCreated,  \* resources the remote platform created, per local id
    fate,           \* the remote platform's answer to a create of each row
    faultBudget,    \* transient failures still to come
    dbFaults,       \* database writes still to fail
    caller,         \* the request handlers (batch run or single sync)
    task,           \* the syncOne calls of each request, one per item
    conn,           \* the qbo_connections row of the realm
    srv,            \* the remote authorisation server's grant for the realm
    now,            \* the clock, in seconds
    ticks,          \* times the clock advanced
    req,            \* the users of the tokens: their kind, position and locals
    retired,        \* access tokens a refresh has overwritten in the row
    created,        \* the qbo_connections row made for a realm that had none
    input,          \* the record handed to a payload transformer
    payload         \* the payload the transformer returned

syncVars == <<entity, syncLog, remoteCreated, fate, faultBudget, dbFaults, caller, task>>
tokenVars == <<conn, srv, now, ticks, req, retired, created>>
payloadVars == <<input, payload>>
vars == <<syncVars, tokenVars, payloadVars>>

\* ------------------------------------------------------------ the tables
AbsentRow == [exists |-> FALSE, syncStatus |-> "PENDING", qboId |-> NULL,
              syncToken |-> -1, lastSyncedAt |-> NULL, createdAt |-> 0,
              qboConnectionId |-> NULL]

\* A freshly inserted row: syncStatus DEFAULT 'PENDING', no remote id.  Rows
\* with a higher id are older, so creation order is not id order.
NewRow(e) == [exists |-> TRUE, syncStatus |-> "PENDING", qboId |-> NULL,
              syncToken |-> -1, lastSyncedAt |-> NULL,
              createdAt |-> MaxEntities + 2 - e,
              qboConnectionId |-> ThisConnection]

\* The id the remote platform gives its k-th resource for local row e.
RemoteId(e, k) == 100 * k + e

\* The stamp of an attempt: new Date() read by the i-th syncOne of caller c.
Stamp(c, i) == 100 * c + i

IdleCaller == [kind |-> "none", pc |-> "idle", i |-> 0, results |-> <<>>,
               successCount |-> 0, failureCount |-> 0, totalProcessed |-> -1,
               accessToken |-> NULL, statusCode |-> NULL,
               endpoint |-> "none", status |-> "none", error |-> "none"]

NoGrant == [accessToken |-> NULL, refreshToken |-> NULL,
            expiresAt |-> NULL, refreshExpiresAt |-> NULL]

\* A user of the tokens that has not started: no local is set, and the
\* Authorization header is the one the client sent.
IdleReq == [kind |-> "none", pc |-> "idle", known |-> TRUE, posts |-> 0,
            sent |-> NULL, sentAt |-> 0,
            currentTime |-> 0, timeRemaining |-> 0,
            grant |-> NoGrant, result |-> "none",
            token |-> NULL, refreshExpired |-> FALSE, retired |-> {}]

\* No transformer has been called.
NoRecord == [kind |-> "none"]

NoTransform ==
    /\ input = NoRecord
    /\ payload = NoRecord

NewTask(e) == [ent |-> e, pc |-> "queued", attempts |-> 0, logStatus |-> "none",
               row |-> 0, outcome |-> "none", qboId |-> NULL,
               success |-> FALSE, error |-> "none"]

\* ------------------------------------------------------------------ Init
\* n rows, and the id n + 1 that no row has.
InitTables(n) ==
    /\ entity = [e \in 1..(n + 1) |-> IF e <= n THEN NewRow(e) ELSE AbsentRow]
    /\ syncLog = [e \in 1..(n + 1) |-> <<>>]
    /\ remoteCreated = [e \in 1..(n + 1) |-> 0]
    /\ caller = [c \in Caller |-> IdleCaller]
    /\ task = [c \in Caller |-> <<>>]

\* The connection as saveConnection stored it at time 0, from the first
\* grant of the authorisation server.
InitToken ==
    /\ conn = [accessToken |-> 1, refreshToken |-> 1,
               expiresAt |-> AccessLifetime,
               refreshExpiresAt |-> DefaultRefreshExpiresIn,
               isConnected |-> TRUE, disconnectedAt |-> NULL]
    /\ srv = [issued |-> 1, refreshToken |-> 1,
              refreshExpiresAt |-> DefaultRefreshExpiresIn]
    /\ now = 0
    /\ ticks = 0
    /\ req = [c \in TokenCaller |-> IdleReq]
    /\ retired = {}
    /\ created = NoRecord

Init ==
    /\ InitTables(NumEntities)
    /\ InitToken
    /\ NoTransform
    /\ \E o \in Outcome :
          fate = [e \in 1..(NumEntities + 1) |-> IF e = 1 THEN o ELSE "ok"]
    /\ faultBudget = MaxFaults
    /\ dbFaults = 0

\* --------------------------------------------------------- createSyncLog
UNDEF == "undefined"

\* findFirst over the rows with the call's (transactionType,
\* systemTransactionId, operation, qboConnectionId): the oldest such row, 0 if none.
FindFirst(rows) == IF Len(rows) > 0 THEN 1 ELSE 0

\* prisma.syncLog.update: a field passed as undefined keeps its stored value.
UpdateRow(old, data) ==
    [status |-> data.status,
     quickbooksId |-> IF data.quickbooksId # NULL THEN data.quickbooksId ELSE old.quickbooksId,
     errorMessage |-> IF data.errorMessage # UNDEF THEN data.errorMessage ELSE old.errorMessage,
     errorCode |-> IF data.errorCode # UNDEF THEN data.errorCode ELSE old.errorCode,
     completed |-> IF data.status # "IN_PROGRESS" THEN TRUE ELSE old.completed]

\* prisma.syncLog.create: a field passed as undefined is stored as NULL.
CreateRow(data) ==
    [status |-> data.status,
     quickbooksId |-> data.quickbooksId,
     errorMessage |-> data.errorMessage,
     errorCode |-> data.errorCode,
     completed |-> data.status # "IN_PROGRESS"]

\* The write of createSyncLog, given the row its findFirst returned.
WriteSyncLog(rows, found, data) ==
    IF found # 0 /\ found <= Len(rows)
    THEN [rows EXCEPT ![found] = UpdateRow(rows[found], data)]
    ELSE Append(rows, CreateRow(data))

\* ------------------------------------------- syncOne: the catch block
\* errorMessage of the catch block, by what failed.
ErrorMessage(o) ==
    CASE o = "fault200" -> "QuickBooks API Error: Invalid Customer Reference (Code: 6240)"
      [] o = "faultHttp" -> "QuickBooks API Error: Invalid Customer Reference (Code: 6240)"
      [] o = "noData" -> "No data returned from QuickBooks"
      [] o = "httpError" -> "Request failed with status code 401"
      [] o = "network" -> "Network Error"
      [] o = "notFound" -> "not found"
      [] o = "dbError" -> "Invalid prisma invocation"
      [] OTHER -> "Unknown error"

\* errorCode of the catch block: the HTTP status of an axios error with a
\* response, AXIOS_ERROR for one without, SYNC_ERROR for any other throw.
ErrorCode(o) ==
    CASE o = "faultHttp" -> "400"
      [] o = "httpError" -> "401"
      [] o = "network" -> "AXIOS_ERROR"
      [] OTHER -> "SYNC_ERROR"

\* An attempt whose first audit entry already says SUCCESS.
LogDataOptimistic(t) ==
    CASE t.logStatus \in {"IN_PROGRESS", "SUCCESS"} ->
            [status |-> "SUCCESS", quickbooksId |-> t.qboId,
             errorMessage |-> UNDEF, errorCode |-> UNDEF]
      [] OTHER ->
            [status |-> "FAILED", quickbooksId |-> NULL,
             errorMessage |-> ErrorMessage(t.outcome), errorCode |-> ErrorCode(t.outcome)]

\* The argument of the createSyncLog call a task is about to make.
LogData(t) ==
    CASE t.logStatus = "IN_PROGRESS" ->
            [status |-> "IN_PROGRESS", quickbooksId |-> NULL,
             errorMessage |-> UNDEF, errorCode |-> UNDEF]
      [] t.logStatus = "SUCCESS" ->
            [status |-> "SUCCESS", quickbooksId |-> t.qboId,
             errorMessage |-> UNDEF, errorCode |-> UNDEF]
      [] OTHER ->
            [status |-> "FAILED", quickbooksId |-> NULL,
             errorMessage |-> ErrorMessage(t.outcome), errorCode |-> ErrorCode(t.outcome)]

\* ------------------------------------------------- the batch orchestrator
\* A slice one short of the batch size.
BatchShort(ts, i) == {k \in 1..Len(ts) : i < k /\ k < i + BATCH_SIZE}

\* pendingPayments.slice(i, i + BATCH_SIZE), as positions of the list.
Batch(ts, i) == {k \in 1..Len(ts) : i < k /\ k <= i + BATCH_SIZE}

Active(ts, idx) == {k \in idx : ts[k].pc \notin {"queued", "done"}}

\* A limiter shared with the batches to come: the next queued call of the
\* whole list starts.
AdmitAcrossBatches(ts, idx) ==
    LET free == ConcurrencyLimit - Cardinality(Active(ts, 1..Len(ts)))
        queued == {k \in 1..Len(ts) : ts[k].pc = "queued"}
        chosen == {k \in queued : Cardinality({j \in queued : j < k}) < free}
    IN  [k \in 1..Len(ts) |->
            IF k \in chosen
            THEN [ts[k] EXCEPT !.pc = "load", !.attempts = @ + 1]
            ELSE ts[k]]

\* No limiter: every call of the batch starts at once.
AdmitAll(ts, idx) ==
    [k \in 1..Len(ts) |->
        IF k \in idx /\ ts[k].pc = "queued"
        THEN [ts[k] EXCEPT !.pc = "load", !.attempts = @ + 1]
        ELSE ts[k]]

\* limit = pLimit(3): queued calls start in order while fewer than three run.
Admit(ts, idx) ==
    LET free == ConcurrencyLimit - Cardinality(Active(ts, idx))
        queued == {k \in idx : ts[k].pc = "queued"}
        chosen == {k \in queued : Cardinality({j \in queued : j < k}) < free}
    IN  [k \in 1..Len(ts) |->
            IF k \in chosen
            THEN [ts[k] EXCEPT !.pc = "load", !.attempts = @ + 1]
            ELSE ts[k]]

\* The selection without the connection in its where clause.
IsPendingAnyConnection(r, qboConnectionId) ==
    /\ r.exists
    /\ r.syncStatus = "PENDING"
    /\ r.qboId = NULL

\* findMany where qboConnectionId is the realm's connection, syncStatus =
\* PENDING and the remote id is null.
IsPending(r, qboConnectionId) ==
    /\ r.exists
    /\ r.qboConnectionId = qboConnectionId
    /\ r.syncStatus = "PENDING"
    /\ r.qboId = NULL

\* orderBy createdAt asc.
OldestFirst(S) ==
    [k \in 1..Cardinality(S) |->
        CHOOSE e \in S :
            Cardinality({x \in S : entity[x].createdAt < entity[e].createdAt}) = k - 1]

\* A classification that answers 400 as soon as one item failed.
BatchStatusCodeStrict(totalProcessed, successCount, failureCount) ==
    IF failureCount > 0 THEN 400 ELSE 200

\* syncAllPayments / syncAllInvoices: the HTTP status of the response, from
\* the counts of the run's result.
BatchStatusCode(totalProcessed, successCount, failureCount) ==
    LET hasFailures == failureCount > 0
        hasSuccesses == successCount > 0
    IN  IF totalProcessed = 0 THEN 200
        ELSE IF hasSuccesses /\ ~hasFailures THEN 200
        ELSE IF hasSuccesses /\ hasFailures THEN 207
        ELSE IF ~hasSuccesses /\ hasFailures THEN 400
        ELSE 200

\* The two single-item sync routes.
Endpoint == {"invoice", "payment"}

\* syncSingleInvoice / syncSinglePayment: the HTTP status, the envelope's
\* status (sendSuccess or sendError) and the error field of the data, from
\* the result of syncOne.
SingleResponse(endpoint, success, error) ==
    IF endpoint = "invoice"
    THEN IF ~success
         THEN [statusCode |-> IF error = "ALREADY_SYNCED" THEN 409 ELSE 400,
               status |-> "error", error |-> error]
         ELSE [statusCode |-> 201, status |-> "success", error |-> "none"]
    ELSE [statusCode |-> IF success THEN 201 ELSE 400,
          status |-> "success", error |-> "none"]

ResultOf(t) == [ent |-> t.ent, success |-> t.success, qboId |-> t.qboId, error |-> t.error]

\* A syncOne call returns to the limit(async () => ...) wrapper, which counts
\* it; p-limit starts the next queued call; when the last call of the batch
\* has returned, Promise.all resolves and the loop goes on; after the last
\* batch the run returns and the controller answers.
Return(c, i, success, error) ==
    LET cl == caller[c]
        ts1 == [task[c] EXCEPT ![i].pc = "done", ![i].success = success,
                               ![i].error = error,
                               ![i].qboId = IF success THEN @ ELSE NULL]
        idx == Batch(ts1, cl.i)
        ts2 == Admit(ts1, idx)
        batchDone == \A k \in idx : ts2[k].pc = "done"
        counted == [cl EXCEPT !.successCount = IF success THEN @ + 1 ELSE @,
                              !.failureCount = IF success THEN @ ELSE @ + 1]
        batchResults == [k \in 1..Cardinality(idx) |-> ResultOf(ts2[cl.i + k])]
        response == SingleResponse(cl.endpoint, success, error)
    IN  /\ task' = [task EXCEPT ![c] = ts2]
        /\ caller' = [caller EXCEPT ![c] =
              IF cl.kind = "single"
              THEN [cl EXCEPT !.pc = "done", !.results = <<ResultOf(ts1[i])>>,
                              !.statusCode = response.statusCode,
                              !.status = response.status,
                              !.error = response.error]
              ELSE IF ~batchDone THEN counted
              ELSE IF cl.i + BATCH_SIZE < Len(ts2)
              THEN [counted EXCEPT !.results = @ \o batchResults, !.pc = "delay"]
              ELSE [counted EXCEPT !.results = @ \o batchResults, !.pc = "done",
                                   !.totalProcessed = Len(ts2),
                                   !.statusCode = BatchStatusCode(Len(ts2),
                                       counted.successCount, counted.failureCount),
                                   !.status = "success"]]

\* Requests are numbered in the order they arrive.
Arrived(c) ==
    /\ caller[c].pc = "idle"
    /\ IF c = 1 THEN TRUE ELSE caller[c - 1].pc # "idle"

\* The access token of the request: the Authorization header as the
\* middleware left it, read by quickbooksAuthMiddleware.
Bearer(c) == req[c].token

\* findOrCreateConnection: the id of the realm's connection, or of the one
\* it creates when the realm has none.
ConnectionOf(c) == IF req[c].known THEN ThisConnection ELSE NewConnection

\* findOrCreateConnection: when findUnique finds no row of the realm, one is
\* created from the access token of the request, with the empty string as
\* refresh token (no token: NULL) and expiries of one hour and 101 days.
findOrCreateConnection(c) ==
    created' = IF ~req[c].known /\ created = NoRecord
               THEN [kind |-> "connection", accessToken |-> caller'[c].accessToken,
                     refreshToken |-> NULL,
                     expiresAt |-> now + AccessLifetime,
                     refreshExpiresAt |-> now + DefaultRefreshExpiresIn,
                     isConnected |-> TRUE]
               ELSE created

\* syncAllPaymentsToQBO up to the first batch; with nothing to sync it
\* returns at once and the controller answers.
StartBatch(c) ==
    /\ Arrived(c)
    /\ LET items == OldestFirst({e \in DOMAIN entity :
                                   IsPending(entity[e], ConnectionOf(c))})
           ts == [k \in 1..Len(items) |-> NewTask(items[k])]
       IN  IF Len(items) = 0
           THEN /\ caller' = [caller EXCEPT ![c] =
                      [@ EXCEPT !.kind = "batch", !.pc = "done", !.totalProcessed = 0,
                                !.accessToken = Bearer(c),
                                !.statusCode = BatchStatusCode(0, 0, 0),
                                !.status = "success"]]
                /\ UNCHANGED task
           ELSE /\ caller' = [caller EXCEPT ![c] =
                      [@ EXCEPT !.kind = "batch", !.pc = "running", !.i = 0,
                                !.accessToken = Bearer(c)]]
                /\ task' = [task EXCEPT ![c] = Admit(ts, Batch(ts, 0))]
    /\ UNCHANGED <<entity, syncLog, remoteCreated, fate, faultBudget, dbFaults>>
    /\ findOrCreateConnection(c)
    /\ UNCHANGED <<conn, srv, now, ticks, req, retired>>
    /\ UNCHANGED payloadVars

\* No pacing: the next batch starts at once.
AfterNoDelay(t) == t

\* The clock when a timer set at t for the pacing delay fires.
AfterDelay(t) == t + PacingDelay

\* The 2-second timer between batches fires: the loop's next iteration.
NextBatch(c) ==
    /\ caller[c].pc = "delay"
    /\ LET i2 == caller[c].i + BATCH_SIZE
       IN  /\ caller' = [caller EXCEPT ![c] = [@ EXCEPT !.pc = "running", !.i = i2]]
           /\ task' = [task EXCEPT ![c] = Admit(task[c], Batch(task[c], i2))]
    /\ now' = AfterDelay(now)
    /\ UNCHANGED <<entity, syncLog, remoteCreated, fate, faultBudget, dbFaults>>
    /\ UNCHANGED <<conn, srv, ticks, req, retired, created>>
    /\ UNCHANGED payloadVars

\* syncSinglePayment / syncSingleInvoice: one syncOne call on the id of the URL.
StartSingle(c, e) ==
    /\ Arrived(c)
    /\ \E endpoint \in Endpoint :
          caller' = [caller EXCEPT ![c] = [@ EXCEPT !.kind = "single", !.pc = "running",
                                                    !.accessToken = Bearer(c),
                                                    !.endpoint = endpoint]]
    /\ task' = [task EXCEPT ![c] = <<[NewTask(e) EXCEPT !.pc = "load", !.attempts = 1]>>]
    /\ UNCHANGED <<entity, syncLog, remoteCreated, fate, faultBudget, dbFaults>>
    /\ UNCHANGED tokenVars
    /\ UNCHANGED payloadVars

\* ------------------------------------------------------------- syncOne
\* The guard left out.
AlreadySyncedNever(r) == FALSE

\* The already-synced guard: if (payment.qboPaymentId) return ALREADY_SYNCED.
AlreadySynced(r) == r.qboId # NULL

\* A failure that is rethrown instead of returned: Promise.all rejects and
\* the run ends in syncAll's catch block.
TryEndsRethrow(c, i, o, id) ==
    IF o = "ok"
    THEN /\ task' = [task EXCEPT ![c][i].pc = "write", ![c][i].outcome = o, ![c][i].qboId = id]
         /\ UNCHANGED caller
    ELSE /\ task' = [task EXCEPT ![c][i].pc = "thrown", ![c][i].outcome = o]
         /\ caller' = [caller EXCEPT ![c].pc = "failed"]

\* The try block ends with outcome o: the SUCCESS update is issued, or the
\* throw lands in syncOne's own catch block, which issues the FAILED update.
\* Nothing escapes to the caller.
TryEnds(c, i, o, id) ==
    /\ task' = [task EXCEPT ![c][i].pc = "write", ![c][i].outcome = o, ![c][i].qboId = id]
    /\ UNCHANGED caller

\* findOrCreateConnection and findUnique resolve; then the not-found throw,
\* the already-synced guard, the transform, and the IN_PROGRESS update is issued.
SyncLoad(c, i) ==
    /\ i \in 1..Len(task[c])
    /\ task[c][i].pc = "load"
    /\ LET r == entity[task[c][i].ent]
       IN  IF ~r.exists
           THEN TryEnds(c, i, "notFound", NULL)
           ELSE IF AlreadySynced(r)
           THEN Return(c, i, FALSE, "ALREADY_SYNCED")
           ELSE /\ task' = [task EXCEPT ![c][i].pc = "mark"]
                /\ UNCHANGED caller
    /\ UNCHANGED <<entity, syncLog, remoteCreated, fate, faultBudget, dbFaults>>
    /\ findOrCreateConnection(c)
    /\ UNCHANGED <<conn, srv, now, ticks, req, retired>>
    /\ UNCHANGED payloadVars

\* How a database write can end: it takes effect, or it throws while the
\* database has failures left.
Written == {TRUE} \cup (IF dbFaults > 0 THEN {FALSE} ELSE {})

Spends(written) == dbFaults' = IF written THEN dbFaults ELSE dbFaults - 1

\* prisma.payment.update({ syncStatus: 'IN_PROGRESS' }) takes effect and the
\* first createSyncLog call starts; or the update throws, and the catch
\* block issues the FAILED update.
SyncMarkInProgress(c, i) ==
    /\ i \in 1..Len(task[c])
    /\ task[c][i].pc = "mark"
    /\ \E written \in Written :
          /\ Spends(written)
          /\ IF written
             THEN /\ entity' = [entity EXCEPT ![task[c][i].ent].syncStatus = "IN_PROGRESS"]
                  /\ task' = [task EXCEPT ![c][i].pc = "logFind",
                                          ![c][i].logStatus = "IN_PROGRESS"]
             ELSE /\ TryEnds(c, i, "dbError", NULL)
                  /\ UNCHANGED entity
    /\ UNCHANGED <<syncLog, remoteCreated, fate, faultBudget, caller>>
    /\ UNCHANGED tokenVars
    /\ UNCHANGED payloadVars

\* createSyncLog: prisma.syncLog.findFirst resolves.
SyncLogFind(c, i) ==
    /\ i \in 1..Len(task[c])
    /\ task[c][i].pc = "logFind"
    /\ task' = [task EXCEPT ![c][i].pc = "logWrite",
                            ![c][i].row = FindFirst(syncLog[task[c][i].ent])]
    /\ UNCHANGED <<entity, syncLog, remoteCreated, fate, faultBudget, dbFaults, caller>>
    /\ UNCHANGED tokenVars
    /\ UNCHANGED payloadVars

\* createSyncLog: the update or create takes effect, or it throws and
\* createSyncLog's own catch block swallows the error.  After the IN_PROGRESS
\* entry the POST is sent; after the SUCCESS or FAILED entry syncOne returns.
SyncLogWrite(c, i) ==
    /\ i \in 1..Len(task[c])
    /\ task[c][i].pc = "logWrite"
    /\ LET t == task[c][i]
       IN  /\ \E written \in Written :
                 /\ Spends(written)
                 /\ syncLog' = IF written
                               THEN [syncLog EXCEPT ![t.ent] =
                                        WriteSyncLog(@, t.row, LogData(t))]
                               ELSE syncLog
           /\ CASE t.logStatus = "IN_PROGRESS" ->
                     /\ task' = [task EXCEPT ![c][i].pc = "post"]
                     /\ UNCHANGED caller
                [] t.logStatus = "SUCCESS" -> Return(c, i, TRUE, "none")
                [] OTHER -> Return(c, i, FALSE, ErrorMessage(t.outcome))
    /\ UNCHANGED <<entity, remoteCreated, fate, faultBudget>>
    /\ UNCHANGED tokenVars
    /\ UNCHANGED payloadVars

\* What the POST can come back with: the platform's answer for this record,
\* or a transient network failure while the budget lasts.
Answers(e) == {fate[e]} \cup (IF faultBudget > 0 THEN {"network"} ELSE {})

\* axios.post resolves or rejects.  On a created resource the SUCCESS update
\* is issued; on a Fault body, missing data or an axios error the catch block
\* issues the FAILED update.
SyncPost(c, i) ==
    /\ i \in 1..Len(task[c])
    /\ task[c][i].pc = "post"
    /\ LET e == task[c][i].ent
       IN  \E o \in Answers(e) :
             /\ faultBudget' = IF o = fate[e] THEN faultBudget ELSE faultBudget - 1
             /\ remoteCreated' = IF o = "ok"
                                 THEN [remoteCreated EXCEPT ![e] = @ + 1]
                                 ELSE remoteCreated
             /\ TryEnds(c, i, o, IF o = "ok" THEN RemoteId(e, remoteCreated[e] + 1) ELSE NULL)
    /\ UNCHANGED <<entity, syncLog, fate, dbFaults>>
    /\ UNCHANGED tokenVars
    /\ UNCHANGED payloadVars

\* The update of the record after the attempt takes effect: remote id, sync
\* token, SUCCESS and lastSyncedAt, or FAILED and lastSyncedAt.  A SUCCESS
\* update that throws lands in the catch block, which issues the FAILED
\* update.  A FAILED update that throws (the database fails, or the record
\* is missing) is swallowed by the inner catch and no log is written.
SyncWrite(c, i) ==
    /\ i \in 1..Len(task[c])
    /\ task[c][i].pc = "write"
    /\ LET t == task[c][i]
           e == t.ent
       IN  IF ~entity[e].exists
           THEN /\ Return(c, i, FALSE, ErrorMessage(t.outcome))
                /\ UNCHANGED <<entity, dbFaults>>
           ELSE \E written \in Written :
                /\ Spends(written)
                /\ IF written
                   THEN /\ entity' = [entity EXCEPT ![e] =
                              IF t.outcome = "ok"
                              THEN [@ EXCEPT !.qboId = t.qboId, !.syncToken = 0,
                                             !.syncStatus = "SUCCESS",
                                             !.lastSyncedAt = Stamp(c, i)]
                              ELSE [@ EXCEPT !.syncStatus = "FAILED",
                                             !.lastSyncedAt = Stamp(c, i)]]
                        /\ task' = [task EXCEPT ![c][i].pc = "logFind",
                                      ![c][i].logStatus = IF t.outcome = "ok" THEN "SUCCESS"
                                                          ELSE "FAILED"]
                        /\ UNCHANGED caller
                   ELSE IF t.outcome = "ok"
                   THEN /\ TryEnds(c, i, "dbError", NULL)
                        /\ UNCHANGED entity
                   ELSE /\ Return(c, i, FALSE, ErrorMessage(t.outcome))
                        /\ UNCHANGED entity
    /\ UNCHANGED <<syncLog, remoteCreated, fate, faultBudget>>
    /\ UNCHANGED tokenVars
    /\ UNCHANGED payloadVars

TaskIndex == 1..(MaxEntities + 1)

Next ==
    \/ \E c \in Caller : StartBatch(c)
    \/ \E c \in Caller, e \in DOMAIN entity : StartSingle(c, e)
    \/ \E c \in Caller, i \in TaskIndex : SyncLoad(c, i)
    \/ \E c \in Caller, i \in TaskIndex : SyncMarkInProgress(c, i)
    \/ \E c \in Caller, i \in TaskIndex : SyncLogFind(c, i)
    \/ \E c \in Caller, i \in TaskIndex : SyncLogWrite(c, i)
    \/ \E c \in Caller, i \in TaskIndex : SyncPost(c, i)
    \/ \E c \in Caller, i \in TaskIndex : SyncWrite(c, i)

Spec == Init /\ [][Next]_vars

\* ------------------------------------------------ one batch run on its own
FailureKinds == <<"fault200", "faultHttp", "httpError", "network", "noData">>

\* The sets of records the remote platform rejects in a run over n records:
\* none, all, every second one.
FailingSets(n) == {{}, 1..n, {e \in 1..n : e % 2 = 0}}

\* The table sizes of the runs: the small ones, a full batch, and more than one.
RunSizes == (0..SmallRun) \cup {BATCH_SIZE, MaxEntities}

InitBatch ==
    /\ \E n \in RunSizes :
          /\ InitTables(n)
          /\ InitToken
          /\ NoTransform
          /\ \E bad \in FailingSets(n) :
                fate = [e \in 1..(n + 1) |->
                          IF e \in bad THEN FailureKinds[(e % 5) + 1] ELSE "ok"]
    /\ faultBudget = 0
    /\ dbFaults = 0

NextOneRun ==
    \/ StartBatch(1)
    \/ NextBatch(1)
    \/ \E i \in TaskIndex : SyncLoad(1, i)
    \/ \E i \in TaskIndex : SyncMarkInProgress(1, i)
    \/ \E i \in TaskIndex : SyncLogFind(1, i)
    \/ \E i \in TaskIndex : SyncLogWrite(1, i)
    \/ \E i \in TaskIndex : SyncPost(1, i)
    \/ \E i \in TaskIndex : SyncWrite(1, i)

SpecBatch == InitBatch /\ [][NextOneRun]_vars

\* ------------------------------------------------------ the token lifecycle
Kind == {"getValidAccessToken", "qboRefresh", "middleware"}

\* How far the clock advances at once: a moment, to within ten minutes of the
\* access token's end, past its end, past the refresh token's end.
Jumps == {1, AccessLifetime - TEN_MINUTES + 1, AccessLifetime, DefaultRefreshExpiresIn}

Tick(d) ==
    /\ ticks < MaxTicks
    /\ now' = now + d
    /\ ticks' = ticks + 1
    /\ UNCHANGED <<conn, srv, req, retired>>
    /\ UNCHANGED syncVars
    /\ UNCHANGED created
    /\ UNCHANGED payloadVars

\* The function returns (or throws) with this result; for the middleware,
\* next() is called with this Authorization header.
Finish(c, result, token) ==
    req' = [req EXCEPT ![c].pc = "done", ![c].result = result, ![c].token = token]

\* The catch blocks of the middleware that match the thrown message.
Disconnects(msg) ==
    msg \in {"Invalid or expired refresh token",
             "Authentication failed while refreshing token"}

\* refreshToken throws msg.  The middleware marks the connection
\* disconnected on a refresh-token error and calls next() in any case,
\* with the header it was given; getValidAccessToken and the /auth/refresh
\* handler pass the error on.
RefreshThrows(c, msg) ==
    IF req[c].kind = "middleware" /\ Disconnects(msg)
    THEN req' = [req EXCEPT ![c].pc = "mDisconnect", ![c].result = msg]
    ELSE Finish(c, msg, req[c].token)

\* The request arrives: a call of getValidAccessToken, of the /auth/refresh
\* handler, or of the middleware in front of a sync route.  Its connection
\* id (for the middleware, its realm-id header) names the connection or
\* names no row.
StartToken(c, k) ==
    /\ req[c].pc = "idle"
    /\ IF c = 1 THEN TRUE ELSE req[c - 1].pc # "idle"
    /\ \E known \in BOOLEAN :
        req' = [req EXCEPT ![c] =
          [IdleReq EXCEPT !.kind = k,
                          !.known = known,
                          !.pc = CASE k = "getValidAccessToken" -> "gFind"
                                   [] k = "qboRefresh" -> "rFind"
                                   [] OTHER -> "mFind",
                          !.refreshExpired = conn.refreshExpiresAt <= now,
                          !.retired = retired]]
    /\ UNCHANGED <<conn, srv, now, ticks, retired>>
    /\ UNCHANGED syncVars
    /\ UNCHANGED created
    /\ UNCHANGED payloadVars

\* isExpired = !expiresAt || new Date() >= new Date(expiresAt), one second late.
isExpiredLate(expiresAt) == expiresAt = NULL \/ now > expiresAt

\* isExpired = !connection.expiresAt || new Date() >= new Date(connection.expiresAt)
isExpired(expiresAt) == expiresAt = NULL \/ now >= expiresAt

\* getValidAccessToken: findFirst({ id, isConnected: true }) resolves; the
\* stored token is returned unless the access token has expired.
GetFind(c) ==
    /\ req[c].pc = "gFind"
    /\ IF ~req[c].known \/ ~conn.isConnected
       THEN Finish(c, "No active QuickBooks connection found", NULL)
       ELSE IF ~isExpired(conn.expiresAt)
       THEN Finish(c, "ok", conn.accessToken)
       ELSE req' = [req EXCEPT ![c].pc = "rFind"]
    /\ UNCHANGED <<conn, srv, now, ticks, retired>>
    /\ UNCHANGED syncVars
    /\ UNCHANGED created
    /\ UNCHANGED payloadVars

\* qboTokenRefreshMiddleware: findUnique({ realmId }) resolves.  Without a
\* connected connection the request goes on as it came; with the refresh
\* token expired the connection is marked disconnected; with under ten
\* minutes left refreshToken is called; otherwise the header is set to the
\* stored access token.
MiddlewareFind(c) ==
    /\ req[c].pc = "mFind"
    /\ IF ~req[c].known \/ ~conn.isConnected
       THEN Finish(c, "ok", req[c].token)
       ELSE LET checked == [req[c] EXCEPT !.currentTime = now,
                                          !.timeRemaining = conn.expiresAt - now]
            IN  IF conn.refreshExpiresAt - now <= 0
                THEN req' = [req EXCEPT ![c] = [checked EXCEPT !.pc = "mDisconnect"]]
                ELSE IF checked.timeRemaining < TEN_MINUTES
                THEN req' = [req EXCEPT ![c] = [checked EXCEPT !.pc = "rFind"]]
                ELSE req' = [req EXCEPT ![c] =
                        [checked EXCEPT !.pc = "done", !.result = "ok",
                                        !.token = conn.accessToken]]
    /\ UNCHANGED <<conn, srv, now, ticks, retired>>
    /\ UNCHANGED syncVars
    /\ UNCHANGED created
    /\ UNCHANGED payloadVars

\* qboTokenRefreshMiddleware: the update to isConnected = false takes
\* effect, and next() is called with the header unchanged.
MiddlewareDisconnect(c) ==
    /\ req[c].pc = "mDisconnect"
    /\ conn' = [conn EXCEPT !.isConnected = FALSE,
                            !.disconnectedAt = req[c].currentTime]
    /\ Finish(c, IF req[c].result = "none" THEN "ok" ELSE req[c].result, req[c].token)
    /\ UNCHANGED <<srv, now, ticks, retired>>
    /\ UNCHANGED syncVars
    /\ UNCHANGED created
    /\ UNCHANGED payloadVars

\* refreshToken: findUnique resolves; the stored refresh token is posted to
\* the token endpoint.
RefreshFind(c) ==
    /\ req[c].pc = "rFind"
    /\ IF ~req[c].known
       THEN RefreshThrows(c, "Token refresh failed: Connection not found")
       ELSE IF ~conn.isConnected
       THEN RefreshThrows(c, "Token refresh failed: Connection is not active")
       ELSE req' = [req EXCEPT ![c].pc = "rPost", ![c].sent = conn.refreshToken,
                               ![c].sentAt = now, ![c].posts = @ + 1]
    /\ UNCHANGED <<conn, srv, now, ticks, retired>>
    /\ UNCHANGED syncVars
    /\ UNCHANGED created
    /\ UNCHANGED payloadVars

\* The authorisation server accepts the refresh token it issued last, until
\* that token's end.
Accepts(token) == token = srv.refreshToken /\ now < srv.refreshExpiresAt

\* refreshToken: the token endpoint answers, some time after the request.
\* A grant carries a new access token, the refresh token to use from now on
\* (a new one, or the one presented) and the refresh token's lifetime or
\* not; the update of the row is issued.  A refused refresh token is
\* answered with status 400.
RefreshPost(c) ==
    /\ req[c].pc = "rPost"
    /\ now > req[c].sentAt
    /\ IF Accepts(req[c].sent)
       THEN \E rotates \in BOOLEAN, withLifetime \in BOOLEAN :
              LET refresh == IF rotates THEN srv.issued + 1 ELSE srv.refreshToken
              IN  /\ srv' = [issued |-> srv.issued + 1,
                             refreshToken |-> refresh,
                             refreshExpiresAt |-> now + DefaultRefreshExpiresIn]
                  /\ req' = [req EXCEPT ![c].pc = "rWrite", ![c].grant =
                        [accessToken |-> srv.issued + 1,
                         refreshToken |-> refresh,
                         expiresAt |-> now + AccessLifetime,
                         refreshExpiresAt |->
                             IF withLifetime THEN now + DefaultRefreshExpiresIn
                             ELSE now + REFRESH_TOKEN_LIFETIME_SECONDS]]
       ELSE /\ RefreshThrows(c, "Invalid or expired refresh token")
            /\ UNCHANGED srv
    /\ UNCHANGED <<conn, now, ticks, retired>>
    /\ UNCHANGED syncVars
    /\ UNCHANGED created
    /\ UNCHANGED payloadVars

\* refreshToken: the update of the row takes effect and the new connection
\* is returned; the caller returns, or sets the header to, its access token.
RefreshWrite(c) ==
    /\ req[c].pc = "rWrite"
    /\ conn' = [conn EXCEPT !.accessToken = req[c].grant.accessToken,
                            !.refreshToken = req[c].grant.refreshToken,
                            !.expiresAt = req[c].grant.expiresAt,
                            !.refreshExpiresAt = req[c].grant.refreshExpiresAt]
    /\ retired' = retired \cup ({conn.accessToken} \ {req[c].grant.accessToken})
    /\ Finish(c, "ok", req[c].grant.accessToken)
    /\ UNCHANGED <<srv, now, ticks>>
    /\ UNCHANGED syncVars
    /\ UNCHANGED created
    /\ UNCHANGED payloadVars

NextToken ==
    \/ \E d \in Jumps : Tick(d)
    \/ \E c \in TokenCaller, k \in Kind : StartToken(c, k)
    \/ \E c \in TokenCaller : GetFind(c)
    \/ \E c \in TokenCaller : MiddlewareFind(c)
    \/ \E c \in TokenCaller : MiddlewareDisconnect(c)
    \/ \E c \in TokenCaller : RefreshFind(c)
    \/ \E c \in TokenCaller : RefreshPost(c)
    \/ \E c \in TokenCaller : RefreshWrite(c)

\* The tokens on their own: no sync request is made.
InitTokenUse ==
    /\ InitTables(NumEntities)
    /\ InitToken
    /\ NoTransform
    /\ fate = [e \in 1..(NumEntities + 1) |-> "ok"]
    /\ faultBudget = 0
    /\ dbFaults = 0

SpecToken == InitTokenUse /\ [][NextToken]_vars

\* ----------------------------------------- requests one after the other
\* No request is being handled.
Quiet == \A c \in Caller : caller[c].pc \in {"idle", "done"}

NextSeq ==
    \/ Quiet /\ \E c \in Caller : StartBatch(c)
    \/ Quiet /\ \E c \in Caller, e \in DOMAIN entity : StartSingle(c, e)
    \/ \E c \in Caller, i \in TaskIndex : SyncLoad(c, i)
    \/ \E c \in Caller, i \in TaskIndex : SyncMarkInProgress(c, i)
    \/ \E c \in Caller, i \in TaskIndex : SyncLogFind(c, i)
    \/ \E c \in Caller, i \in TaskIndex : SyncLogWrite(c, i)
    \/ \E c \in Caller, i \in TaskIndex : SyncPost(c, i)
    \/ \E c \in Caller, i \in TaskIndex : SyncWrite(c, i)

SpecSeq == Init /\ [][NextSeq]_vars

\* ------------------------- requests one after the other, a failing database
InitFault ==
    /\ InitTables(NumEntities)
    /\ InitToken
    /\ NoTransform
    /\ \E o \in Outcome :
          fate = [e \in 1..(NumEntities + 1) |-> IF e = 1 THEN o ELSE "ok"]
    /\ faultBudget = 0
    /\ dbFaults \in 0..MaxDbFaults

SpecFault == InitFault /\ [][NextSeq]_vars

\* ------------------------------------- one sync request, end to end
\* The middleware has called next(): the request goes on to the route
\* handler with the Authorization header it has now.
CallsNext(c) == req[c].kind = "middleware" /\ req[c].pc = "done"

\* The route handler runs after the middleware has called next().
HandleBatch(c) == CallsNext(c) /\ StartBatch(c)

HandleSingle(c, e) == CallsNext(c) /\ StartSingle(c, e)

NextRequest ==
    \/ \E d \in Jumps : Tick(d)
    \/ StartToken(1, "middleware")
    \/ MiddlewareFind(1)
    \/ MiddlewareDisconnect(1)
    \/ RefreshFind(1)
    \/ RefreshPost(1)
    \/ RefreshWrite(1)
    \/ HandleBatch(1)
    \/ \E e \in DOMAIN entity : HandleSingle(1, e)
    \/ \E i \in TaskIndex : SyncLoad(1, i)
    \/ \E i \in TaskIndex : SyncMarkInProgress(1, i)
    \/ \E i \in TaskIndex : SyncLogFind(1, i)
    \/ \E i \in TaskIndex : SyncLogWrite(1, i)
    \/ \E i \in TaskIndex : SyncPost(1, i)
    \/ \E i \in TaskIndex : SyncWrite(1, i)

SpecRequest == InitTokenUse /\ [][NextRequest]_vars

\* ------------------------------------------- one run over a mixed table
SyncStatus == {"PENDING", "IN_PROGRESS", "SUCCESS", "FAILED", "RETRY", "CANCELLED"}

\* What a row can look like when the run selects: its status, and whether it
\* is a plain row of the realm's connection, has a remote id already, or
\* belongs to another connection.
Shape == [syncStatus : SyncStatus, is : {"plain", "withId", "other"}]

ShapedRow(e, sh, asc) ==
    [NewRow(e) EXCEPT !.syncStatus = sh.syncStatus,
                      !.qboId = IF sh.is = "withId" THEN RemoteId(e, 1) ELSE NULL,
                      !.syncToken = IF sh.is = "withId" THEN 0 ELSE -1,
                      !.qboConnectionId = IF sh.is = "other" THEN OtherConnection
                                          ELSE ThisConnection,
                      !.createdAt = IF asc THEN e ELSE @]

\* SelectRows rows of any shape, created in id order or against it; the
\* remote platform rejects the rows with an even id.
InitSelect ==
    /\ \E shape \in [1..SelectRows -> Shape], asc \in BOOLEAN :
          /\ entity = [e \in 1..(SelectRows + 1) |->
                         IF e <= SelectRows THEN ShapedRow(e, shape[e], asc)
                         ELSE AbsentRow]
          /\ remoteCreated = [e \in 1..(SelectRows + 1) |->
                         IF e <= SelectRows /\ shape[e].is = "withId" THEN 1 ELSE 0]
    /\ syncLog = [e \in 1..(SelectRows + 1) |-> <<>>]
    /\ caller = [c \in Caller |-> IdleCaller]
    /\ task = [c \in Caller |-> <<>>]
    /\ InitToken
    /\ NoTransform
    /\ fate = [e \in 1..(SelectRows + 1) |-> IF e % 2 = 0 THEN "httpError" ELSE "ok"]
    /\ faultBudget = 0
    /\ dbFaults = 0

NextSelect ==
    \/ StartBatch(1)
    \/ \E i \in TaskIndex : SyncLoad(1, i)
    \/ \E i \in TaskIndex : SyncMarkInProgress(1, i)
    \/ \E i \in TaskIndex : SyncLogFind(1, i)
    \/ \E i \in TaskIndex : SyncLogWrite(1, i)
    \/ \E i \in TaskIndex : SyncPost(1, i)
    \/ \E i \in TaskIndex : SyncWrite(1, i)

SpecSelect == InitSelect /\ [][NextSelect]_vars

\* ------------------------------------------------ the payload transformers
\* The detail types of a stored line item: a sales item line, the tax line
\* the invoice generator appends, and any other kind of line.
DetailType == {"SalesItemLineDetail", "TaxLineDetail", "DiscountLineDetail"}

Amounts == {20, 80}

LineItem == [detailType : DetailType, amount : Amounts]

SeqsUpTo(S, n) == UNION {[1..k -> S] : k \in 0..n}

RECURSIVE SumOfAmounts(_)
SumOfAmounts(lines) ==
    IF lines = <<>> THEN 0
    ELSE Head(lines).amount + SumOfAmounts(Tail(lines))

\* An invoice as the generator stores it: total is the sum of all its lines.
Invoices ==
    {[kind |-> "invoice", customerId |-> "C1", lineItems |-> ls,
      total |-> SumOfAmounts(ls)] : ls \in SeqsUpTo(LineItem, MaxLines) \ {<<>>}}

\* transformLineItemsToQBO: the sales item lines, in order; every other
\* line is skipped.
RECURSIVE transformLineItemsToQBO(_)
transformLineItemsToQBO(lineItems) ==
    IF lineItems = <<>> THEN <<>>
    ELSE LET item == Head(lineItems)
             rest == transformLineItemsToQBO(Tail(lineItems))
         IN  IF item.detailType = "SalesItemLineDetail"
             THEN <<[DetailType |-> "SalesItemLineDetail", Amount |-> item.amount]>> \o rest
             ELSE rest

transformInvoiceToQBO(invoice) ==
    [kind |-> "invoice",
     Line |-> transformLineItemsToQBO(invoice.lineItems),
     CustomerRef |-> invoice.customerId]

\* The remote invoice ids a payment can link to: the one on the linked
\* invoice now, the one in its stored linkedTransactions, the one cached on
\* the payment.
LiveId == RemoteId(1, 1)
StoredId == RemoteId(2, 1)
CachedId == RemoteId(3, 1)

\* A payment: whether it has an invoiceId, whether that invoice is found and
\* its qboInvoiceId, the stored linkedTransactions (absent, or a list whose
\* entries may be null), and the cached qboInvoiceId.
Payments ==
    {[kind |-> "payment", hasInvoice |-> h, invoiceFound |-> f, invoiceQboId |-> live,
      hasLinkedTransactions |-> hl, linkedTransactions |-> lt, qboInvoiceId |-> cached] :
        h \in BOOLEAN, f \in BOOLEAN, live \in {NULL, LiveId}, hl \in BOOLEAN,
        lt \in SeqsUpTo({NULL, StoredId}, MaxLinks), cached \in {NULL, CachedId}}

\* One LinkedTxn entry to an invoice.
Link(id) == <<[TxnId |-> id, TxnType |-> "Invoice"]>>

\* .filter(txn => txn != null).map(...)
RECURSIVE NotNull(_)
NotNull(txns) ==
    IF txns = <<>> THEN <<>>
    ELSE IF Head(txns) # NULL THEN Link(Head(txns)) \o NotNull(Tail(txns))
    ELSE NotNull(Tail(txns))

\* transformPaymentToQBO: the customer and the remote invoice id are read
\* from the linked invoice; LinkedTxn is set from that id, else from the
\* stored list when the payment has one, else from the cached id.
transformPaymentToQBO(payment) ==
    LET invoice == payment.hasInvoice /\ payment.invoiceFound
        customerRef == IF invoice THEN "C1" ELSE "1"
        qboInvoiceId == IF invoice THEN payment.invoiceQboId ELSE NULL
    IN  IF qboInvoiceId # NULL
        THEN [kind |-> "payment", CustomerRef |-> customerRef,
              hasLinkedTxn |-> TRUE, LinkedTxn |-> Link(qboInvoiceId)]
        ELSE IF payment.hasLinkedTransactions
        THEN [kind |-> "payment", CustomerRef |-> customerRef,
              hasLinkedTxn |-> TRUE, LinkedTxn |-> NotNull(payment.linkedTransactions)]
        ELSE IF payment.qboInvoiceId # NULL
        THEN [kind |-> "payment", CustomerRef |-> customerRef,
              hasLinkedTxn |-> TRUE, LinkedTxn |-> Link(payment.qboInvoiceId)]
        ELSE [kind |-> "payment", CustomerRef |-> customerRef,
              hasLinkedTxn |-> FALSE, LinkedTxn |-> <<>>]

InitTransform ==
    /\ InitTables(NumEntities)
    /\ InitToken
    /\ fate = [e \in 1..(NumEntities + 1) |-> "ok"]
    /\ faultBudget = 0
    /\ dbFaults = 0
    /\ input \in Invoices \cup Payments
    /\ payload = NoRecord

TransformInvoice ==
    /\ input.kind = "invoice"
    /\ payload = NoRecord
    /\ payload' = transformInvoiceToQBO(input)
    /\ UNCHANGED <<input, syncVars, tokenVars>>

TransformPayment ==
    /\ input.kind = "payment"
    /\ payload = NoRecord
    /\ payload' = transformPaymentToQBO(input)
    /\ UNCHANGED <<input, syncVars, tokenVars>>

NextTransform ==
    \/ TransformInvoice
    \/ TransformPayment

SpecTransform == InitTransform /\ [][NextTransform]_vars

\* ================================================================ claims
Tasks == {<<c, i>> \in Caller \X TaskIndex : i <= Len(task[c])}

\* The call <<c, i>> returns in this step.
Returns(c, i) ==
    /\ i <= Len(task[c])
    /\ task[c][i].pc \notin {"queued", "done"}
    /\ task'[c][i].pc = "done"

\* C1: at-most-once remote creation: whatever calls run concurrently, the
\* remote platform never receives and accepts two creates of one record.
C1_AtMostOnceCreation == \A e \in DOMAIN entity : remoteCreated[e] <= 1

\* C2: idempotence of syncOne: a call that finds the record with a remote id
\* returns ALREADY_SYNCED at once, and the step changes no record, no sync
\* log row and nothing at the remote platform.
C2_Idempotence ==
    [][\A c \in Caller : \A i \in TaskIndex :
          ( /\ i <= Len(task[c])
            /\ task[c][i].pc = "load"
            /\ task'[c][i].pc # "load"
            /\ entity[task[c][i].ent].exists
            /\ entity[task[c][i].ent].qboId # NULL )
          => ( /\ task'[c][i].pc = "done"
               /\ ~task'[c][i].success
               /\ task'[c][i].error = "ALREADY_SYNCED"
               /\ task'[c][i].outcome = "none"
               /\ UNCHANGED <<entity, syncLog, remoteCreated>> )]_vars

\* A call returned ALREADY_SYNCED.
C2_Witness ==
    \E ci \in Tasks : /\ task[ci[1]][ci[2]].pc = "done"
                      /\ task[ci[1]][ci[2]].error = "ALREADY_SYNCED"
                      /\ entity[task[ci[1]][ci[2]].ent].qboId # NULL

\* C3: remote-id immutability: a remote id, once set, never changes.
C3_RemoteIdImmutable ==
    [][\A e \in DOMAIN entity :
          entity[e].qboId # NULL => entity'[e].qboId = entity[e].qboId]_vars

\* The rows of the table, all PENDING when the run selects.
Rows == {e \in DOMAIN entity : entity[e].exists}

\* C4: conservation in a batch run: when the run has returned, every selected
\* record was passed to syncOne exactly once, the result list has one entry
\* per selected record, totalProcessed = N and successCount + failureCount = N.
C4_Conservation ==
    \A c \in Caller :
        (caller[c].kind = "batch" /\ caller[c].pc = "done") =>
            LET N == Cardinality(Rows)
            IN  /\ Len(task[c]) = N
                /\ \A e \in Rows :
                      Cardinality({k \in 1..N : task[c][k].ent = e}) = 1
                /\ \A k \in 1..N : task[c][k].attempts = 1 /\ task[c][k].pc = "done"
                /\ Len(caller[c].results) = N
                /\ \A k \in 1..N : caller[c].results[k].ent = task[c][k].ent
                /\ caller[c].totalProcessed = N
                /\ caller[c].successCount + caller[c].failureCount = N

\* A run over more than one batch returned, with successes and failures.
C4_Witness ==
    /\ caller[1].kind = "batch" /\ caller[1].pc = "done"
    /\ Len(task[1]) > BATCH_SIZE
    /\ caller[1].successCount > 0
    /\ caller[1].failureCount > 0

\* C5: isolation: whatever calls fail, a started run can always take its
\* next step until it returns, and when it returns every call of every batch
\* has returned.
C5_Isolation ==
    /\ (caller[1].kind = "batch" /\ caller[1].pc # "done") => ENABLED NextOneRun
    /\ caller[1].pc \in {"done", "failed"} =>
          /\ caller[1].pc = "done"
          /\ \A k \in 1..Len(task[1]) : task[1][k].pc = "done"

\* A run returned in which a call failed and later calls, of the same batch
\* and of the next, succeeded.
C5_Witness ==
    /\ caller[1].pc = "done"
    /\ Len(task[1]) > BATCH_SIZE
    /\ \E k \in 1..BATCH_SIZE : \E j \in 1..BATCH_SIZE :
          /\ k < j
          /\ ~task[1][k].success /\ task[1][k].outcome # "none"
          /\ task[1][j].success
    /\ task[1][Len(task[1])].success

\* C6: a failed attempt leaves FAILED behind: when a call whose attempt
\* failed after the guard returns, it returns success = false and the record
\* is FAILED with lastSyncedAt of this attempt.
C6_FailureOutcome ==
    [][\A c \in Caller : \A i \in TaskIndex :
          (Returns(c, i) /\ task[c][i].outcome \in Outcome \ {"ok"})
          => ( /\ ~task'[c][i].success
               /\ entity'[task[c][i].ent].syncStatus = "FAILED"
               /\ entity'[task[c][i].ent].lastSyncedAt = Stamp(c, i) )]_vars

\* C7: every failed attempt is in the audit log: when a call returns
\* success = false for a reason other than ALREADY_SYNCED, the sync log row
\* of its key is FAILED with the attempt's error code and message.
C7_FailurePersisted ==
    [][\A c \in Caller : \A i \in TaskIndex :
          (Returns(c, i) /\ ~task'[c][i].success /\ task'[c][i].error # "ALREADY_SYNCED")
          => LET rows == syncLog'[task[c][i].ent]
             IN  /\ Len(rows) >= 1
                 /\ rows[1].status = "FAILED"
                 /\ rows[1].errorCode = ErrorCode(task[c][i].outcome)
                 /\ rows[1].errorMessage = ErrorMessage(task[c][i].outcome)]_vars

\* The refresh flows in flight: refreshToken entered and not yet returned.
InFlight == {c \in TokenCaller : req[c].pc \in {"rFind", "rPost", "rWrite"}}

\* C8: single-flight token refresh: at most one refresh flow of the
\* connection is in flight at any instant, and once every flow has returned
\* the stored refresh token is the one the authorisation server issued last.
C8_SingleFlightRefresh ==
    /\ Cardinality(InFlight) <= 1
    /\ (\A c \in TokenCaller : req[c].pc \in {"idle", "done"})
          => conn.refreshToken = srv.refreshToken

\* C9: token monotonicity: the update of a successful refresh stores an
\* expiresAt strictly later than the stored one, and a getValidAccessToken
\* call returns no access token that a refresh had overwritten before the
\* call started.
C9_TokenMonotonic ==
    [][\A c \in TokenCaller :
          /\ (req[c].pc = "rWrite" /\ req'[c].pc = "done")
                => conn'.expiresAt > conn.expiresAt
          /\ ( /\ req[c].kind = "getValidAccessToken"
               /\ req[c].pc # "done" /\ req'[c].pc = "done"
               /\ req'[c].result = "ok" )
                => req'[c].token \notin req[c].retired]_vars

\* C10: expired refresh token: a getValidAccessToken call that starts when
\* refreshExpiresAt is in the past ends in an error, returns no token, and
\* leaves the connection with isConnected = false.
C10_RefreshExpired ==
    [][\A c \in TokenCaller :
          ( /\ req[c].kind = "getValidAccessToken"
            /\ req[c].refreshExpired
            /\ req[c].pc # "done" /\ req'[c].pc = "done" )
          => ( /\ req'[c].result # "ok"
               /\ req'[c].token = NULL
               /\ ~conn'.isConnected )]_vars

\* The flow of c ends in this step.
Finishes(c) == req[c].pc \notin {"idle", "done"} /\ req'[c].pc = "done"

\* C11: refresh rejection disconnects: when a flow ends whose refresh the
\* token endpoint refused with status 400, the connection is disconnected
\* with disconnectedAt set, and the request does not go on to the route
\* handler.
C11_RejectionDisconnects ==
    [][\A c \in TokenCaller :
          (Finishes(c) /\ req'[c].result = "Invalid or expired refresh token")
          => ( /\ ~conn'.isConnected
               /\ conn'.disconnectedAt # NULL
               /\ ~CallsNext(c)' )]_vars

\* C12: getValidAccessToken: on a known, connected connection with
\* now < expiresAt it returns the stored access token and the token endpoint
\* is not contacted; otherwise it goes on to refreshToken, contacts the token
\* endpoint at most once, and a returned token is the one that refresh was
\* granted and stored; on a missing or disconnected connection it fails and
\* the connection is unchanged.
C12_GetValidAccessToken ==
    [][\A c \in TokenCaller :
          (req[c].kind = "getValidAccessToken" /\ req[c].pc # req'[c].pc) =>
             IF req[c].pc = "gFind"
             THEN IF req[c].known /\ conn.isConnected
                  THEN IF now < conn.expiresAt
                       THEN /\ req'[c].pc = "done"
                            /\ req'[c].result = "ok"
                            /\ req'[c].token = conn.accessToken
                            /\ req'[c].posts = 0
                            /\ UNCHANGED <<conn, srv>>
                       ELSE req'[c].pc = "rFind"
                  ELSE /\ req'[c].pc = "done"
                       /\ req'[c].result # "ok"
                       /\ req'[c].token = NULL
                       /\ UNCHANGED <<conn, srv>>
             ELSE /\ req'[c].posts <= 1
                  /\ (req'[c].pc = "done" /\ req'[c].result = "ok") =>
                        /\ req'[c].posts = 1
                        /\ req'[c].token = req[c].grant.accessToken
                        /\ conn'.accessToken = req'[c].token]_vars

\* A getValidAccessToken call found the access token expired, refreshed and
\* returned the new token.
C12_Witness ==
    \E c \in TokenCaller :
        /\ req[c].kind = "getValidAccessToken"
        /\ req[c].pc = "done"
        /\ req[c].result = "ok"
        /\ req[c].posts = 1
        /\ req[c].token = req[c].grant.accessToken

\* The access token of request c was checked by the middleware with at least
\* ten minutes left, or is the one a refresh of the middleware was granted.
Checked(c) ==
    /\ caller[c].accessToken # NULL
    /\ \/ req[c].timeRemaining >= TEN_MINUTES
       \/ req[c].posts = 1 /\ caller[c].accessToken = req[c].grant.accessToken

\* C13: proactive refresh: every create that a sync request for the realm of
\* the connection posts to the remote platform carries an access token that
\* the middleware checked with at least ten minutes left, or refreshed first.
C13_ProactiveRefresh ==
    [][\A c \in Caller : \A i \in TaskIndex :
          ( /\ i <= Len(task[c])
            /\ task[c][i].pc = "post"
            /\ task'[c][i].pc # "post"
            /\ req[c].known )
          => Checked(c)]_vars

\* The attempts made on record e: the returned calls that passed the guard.
Attempts(e) ==
    {ci \in Tasks : /\ task[ci[1]][ci[2]].ent = e
                    /\ task[ci[1]][ci[2]].pc = "done"
                    /\ task[ci[1]][ci[2]].outcome # "none"}

\* The most recent of them, when requests are handled one after the other.
LastAttempt(e) ==
    CHOOSE ci \in Attempts(e) : \A cj \in Attempts(e) : cj[1] <= ci[1]

\* C14: audit upsert: after two consecutive attempts on one record there is
\* exactly one sync log row of its key, and its status, remote id, error code
\* and error message are those of the most recent attempt.
C14_AuditUpsert ==
    \A e \in DOMAIN entity :
        (Quiet /\ entity[e].exists /\ Cardinality(Attempts(e)) >= 2) =>
            LET ci == LastAttempt(e)
                t == task[ci[1]][ci[2]]
                rows == syncLog[e]
            IN  /\ Len(rows) = 1
                /\ rows[1].status = IF t.success THEN "SUCCESS" ELSE "FAILED"
                /\ rows[1].quickbooksId = t.qboId
                /\ rows[1].errorCode = IF t.success THEN UNDEF ELSE ErrorCode(t.outcome)
                /\ rows[1].errorMessage = IF t.success THEN UNDEF ELSE ErrorMessage(t.outcome)

\* C15: entry-state guard: the update to IN_PROGRESS, which precedes the
\* create posted to the remote platform, takes effect only on a record whose
\* syncStatus is PENDING or RETRY.
C15_EntryStateGuard ==
    [][\A c \in Caller : \A i \in TaskIndex :
          ( /\ i <= Len(task[c])
            /\ task[c][i].pc = "mark"
            /\ task'[c][i].pc # "mark" )
          => entity[task[c][i].ent].syncStatus \in {"PENDING", "RETRY"}]_vars

\* The batch of the k-th selected record, counted from 0.
BatchOf(k) == (k - 1) \div BATCH_SIZE

\* The calls of a run that have started and not returned.
Running(c) == {k \in 1..Len(task[c]) : task[c][k].pc \notin {"queued", "done"}}

\* C16: batches in sequence: when a call for a record of a batch has
\* started, every call of every earlier batch has returned and its result is
\* in the run's result list.
C16_BatchesInSequence ==
    \A c \in Caller : \A k \in 1..Len(task[c]) :
        task[c][k].pc # "queued" =>
            /\ \A j \in 1..Len(task[c]) :
                  BatchOf(j) < BatchOf(k) => task[c][j].pc = "done"
            /\ Len(caller[c].results) >= BatchOf(k) * BATCH_SIZE
            /\ caller[c].successCount + caller[c].failureCount >= BatchOf(k) * BATCH_SIZE

\* A call of the second batch is running.
C16_Witness ==
    \E k \in Running(1) : BatchOf(k) = 1 /\ Len(caller[1].results) = BATCH_SIZE

\* C17: bounded concurrency: at most three calls of a run have started and
\* not returned.
C17_BoundedConcurrency ==
    \A c \in Caller : Cardinality(Running(c)) <= ConcurrencyLimit

\* Three calls are running and others of the batch wait.
C17_Witness ==
    /\ Cardinality(Running(1)) = ConcurrencyLimit
    /\ \E k \in 1..Len(task[1]) : task[1][k].pc = "queued" /\ BatchOf(k) = 0

\* ceil(n / BATCH_SIZE)
BatchCount(n) == (n + BATCH_SIZE - 1) \div BATCH_SIZE

\* C18: batch partition and pacing: a run over N records works on batch
\* i / 10 of the records i + 1 .. i + 10, having waited the pacing delay once
\* before each batch but the first; when it returns it has run ceil(N / 10)
\* batches and waited ceil(N / 10) - 1 times, not after the last batch.
C18_PartitionAndPacing ==
    \A c \in Caller :
        caller[c].kind = "batch" =>
            LET N == Len(task[c])
                i == caller[c].i
            IN  /\ i % BATCH_SIZE = 0
                /\ \A k \in 1..N : task[c][k].pc # "queued" => k <= i + BATCH_SIZE
                /\ caller[c].pc = "running" =>
                      /\ i < N
                      /\ now = PacingDelay * (i \div BATCH_SIZE)
                      /\ Len(caller[c].results) = i
                /\ caller[c].pc = "delay" =>
                      /\ i + BATCH_SIZE < N
                      /\ now = PacingDelay * (i \div BATCH_SIZE)
                      /\ Len(caller[c].results) = i + BATCH_SIZE
                /\ caller[c].pc = "done" =>
                      /\ (i \div BATCH_SIZE) + 1 = IF N = 0 THEN 1 ELSE BatchCount(N)
                      /\ now = IF N = 0 THEN 0 ELSE PacingDelay * (BatchCount(N) - 1)
                      /\ Len(caller[c].results) = N

\* A run over more than ten records returned after two batches and one delay.
C18_Witness ==
    /\ caller[1].kind = "batch" /\ caller[1].pc = "done"
    /\ Len(task[1]) > BATCH_SIZE
    /\ caller[1].i = BATCH_SIZE
    /\ now = PacingDelay


\* C19  Candidate selection: a batch run attempts exactly the rows of the
\* given connection that have syncStatus PENDING and no remote id when it
\* selects, oldest-created first; rows in any other status, rows with a
\* remote id and rows of other connections are never attempted nor changed
\* by the run; with no such row the run returns totalProcessed 0 and an
\* empty result list, and changes no row and no audit row.
Attempted(ts) == {ts[k].ent : k \in 1..Len(ts)}

Succeeded(results) == {k \in 1..Len(results) : results[k].success}

C20_StatusClassification ==
    \A c \in Caller :
        (caller[c].kind = "batch" /\ caller[c].pc = "done") =>
            LET cl == caller[c]
                ok == Cardinality(Succeeded(cl.results))
                failed == Len(cl.results) - ok
            IN  /\ cl.totalProcessed = Len(cl.results)
                /\ cl.statusCode \in {200, 207, 400}
                /\ cl.statusCode = 200 <=> (cl.totalProcessed = 0 \/ failed = 0)
                /\ cl.statusCode = 207 <=> (ok > 0 /\ failed > 0)
                /\ cl.statusCode = 400 <=> (cl.totalProcessed > 0 /\ ok = 0)

\* A run over two batches that ends with successes and failures and is
\* answered 207.
C20_Witness ==
    /\ caller[1].kind = "batch"
    /\ caller[1].pc = "done"
    /\ caller[1].totalProcessed > BATCH_SIZE
    /\ Succeeded(caller[1].results) # {}
    /\ Cardinality(Succeeded(caller[1].results)) < Len(caller[1].results)
    /\ caller[1].statusCode = 207


\* C21  Single-item sync endpoint outcome: on both routes the response is
\* HTTP 201 with envelope status "success" exactly when syncOne succeeded;
\* when the record already has a remote id the response is HTTP 400 and
\* carries the error code ALREADY_SYNCED; every other failure is answered
\* with envelope status "error" and an error in the body.
C21_SingleEndpointOutcome ==
    \A c \in Caller :
        (caller[c].kind = "single" /\ caller[c].pc = "done") =>
            LET cl == caller[c]
                r == cl.results[1]
            IN  /\ (cl.statusCode = 201 /\ cl.status = "success") <=> r.success
                /\ cl.status = "success" => r.success
                /\ r.error = "ALREADY_SYNCED" =>
                      /\ cl.statusCode = 400
                      /\ cl.error = "ALREADY_SYNCED"
                /\ ~r.success => (cl.status = "error" /\ cl.error # "none")


\* C22  Scenario C: when the remote platform answers the create with the
\* fault of code 6240, in an HTTP error response or in the body of a 200
\* response, syncOne leaves the record FAILED and the audit row of the
\* attempt has errorCode "6240".
C22_FaultCodeRecorded ==
    \A i \in 1..Len(task[1]) :
        (task[1][i].pc = "done" /\ task[1][i].outcome \in {"fault200", "faultHttp"}) =>
            LET e == task[1][i].ent
            IN  /\ entity[e].syncStatus = "FAILED"
                /\ Len(syncLog[e]) = 1
                /\ syncLog[e][1].status = "FAILED"
                /\ syncLog[e][1].errorCode = "6240"


\* C23  Line-sum invariant of the payload transformer: the Amount fields of
\* the lines transformInvoiceToQBO puts in the payload add up to the
\* invoice's recorded total, whatever the mix of line detail types.
RECURSIVE SumOfAmount(_)
SumOfAmount(Line) ==
    IF Line = <<>> THEN 0
    ELSE Head(Line).Amount + SumOfAmount(Tail(Line))

C23_LineSum ==
    payload.kind = "invoice" => SumOfAmount(payload.Line) = input.total

\* C25  Payment link resolution order: LinkedTxn is the linked invoice's
\* remote id read from the invoice when it has one; otherwise the payment's
\* stored linkedTransactions; otherwise the remote invoice id cached on the
\* payment, which is used whenever the first two yield no link, also when
\* the stored list is present but empty.
C25_LinkResolution ==
    payload.kind = "payment" =>
        LET live == IF input.hasInvoice /\ input.invoiceFound
                    THEN input.invoiceQboId ELSE NULL
            stored == IF input.hasLinkedTransactions
                      THEN SelectSeq(input.linkedTransactions, LAMBDA t : t # NULL)
                      ELSE <<>>
            links == [k \in 1..Len(payload.LinkedTxn) |-> payload.LinkedTxn[k].TxnId]
        IN  IF live # NULL THEN links = <<live>>
            ELSE IF stored # <<>> THEN links = stored
            ELSE IF input.qboInvoiceId # NULL THEN links = <<input.qboInvoiceId>>
            ELSE links = <<>>


\* C24  Connection credential ownership: the sync operations never create
\* or write a connection's access token, refresh token or expiry fields;
\* only the token lifecycle operations do.
SyncStep == syncVars' # syncVars

C24_CredentialOwnership ==
    [][SyncStep =>
          /\ created' = created
          /\ conn'.accessToken = conn.accessToken
          /\ conn'.refreshToken = conn.refreshToken
          /\ conn'.expiresAt = conn.expiresAt
          /\ conn'.refreshExpiresAt = conn.refreshExpiresAt]_vars


\* C26  Attempt ordering in syncOne: when the create request of an attempt
\* is out, the record is IN_PROGRESS and an audit row with status
\* IN_PROGRESS exists; the record's move to SUCCESS or FAILED, and the
\* matching update of the audit row, happen only after the remote answer or
\* error has been received.
Ended == {"SUCCESS", "FAILED"}

C27_StatusIdConsistency ==
    Quiet =>
        \A e \in DOMAIN entity :
            entity[e].exists =>
                (entity[e].qboId # NULL <=> entity[e].syncStatus = "SUCCESS")


\* C28  Remote creation is recorded locally: once the remote platform has
\* accepted a create for a record and returned an id, syncOne ends with the
\* record's remote id set to that id, so a later syncOne on the record hits
\* the already-synced guard and creates no second resource; also when a
\* database write after the remote call fails.
C28_CreationRecorded ==
    Quiet =>
        \A e \in DOMAIN entity :
            remoteCreated[e] > 0 =>
                /\ entity[e].qboId = RemoteId(e, 1)
                /\ remoteCreated[e] = 1

\* C29  No stuck IN_PROGRESS: a syncOne call that set the record to
\* IN_PROGRESS returns with the record SUCCESS or FAILED, never IN_PROGRESS,
\* whichever step of the attempt failed.
C29_NoStuckInProgress ==
    [][\A c \in Caller : \A i \in 1..Len(task[c]) :
          ( /\ task[c][i].pc # "done"
            /\ task'[c][i].pc = "done"
            /\ task[c][i].logStatus # "none" )
          => entity'[task[c][i].ent].syncStatus \in Ended]_vars


\* C30  Audit key uniqueness under concurrency: in every reachable state,
\* also when two syncOne attempts on one record interleave, sync_logs holds
\* at most one row per (transactionType, systemTransactionId, operation,
\* connection); createSyncLog's find-then-insert never makes two.
C30_AuditKeyUnique ==
    \A e \in DOMAIN syncLog : Len(syncLog[e]) <= 1

====
